---- MODULE Spec2Model ----
(***************************************************************************)
(* dso-text-scrubber (src/main.py): the pattern loop of sanitize_text, the *)
(* replacement strategies, the synthetic-data generator and the input and  *)
(* output handling of main.                                                *)
(*                                                                         *)
(* A text is a sequence of one-character strings.  A pattern spec is the   *)
(* regular-expression source string; re_compile gives its compiled form,   *)
(* a sequence of greedy quantified character classes and word boundaries,  *)
(* which MatchFrom runs with Python's backtracking priority.               *)
(***************************************************************************)
EXTENDS Integers, Sequences, FiniteSets, TLC

(***************************************************************************)
(* Bounds of the explored inputs.                                          *)
(***************************************************************************)
MaxLen == 3
MaxPats == 2
TwiceLen == 2

(***************************************************************************)
(* Character classes of the regular expressions used.                      *)
(***************************************************************************)
Upper == {"A","B","C","D","E","F","G","H","I","J","K","L","M",
          "N","O","P","Q","R","S","T","U","V","W","X","Y","Z"}
Lower == {"a","b","c","d","e","f","g","h","i","j","k","l","m",
          "n","o","p","q","r","s","t","u","v","w","x","y","z"}
Digit == {"0","1","2","3","4","5","6","7","8","9"}
Space == {" ", "\t", "\n", "\r", "\f"}
WordChars == Upper \cup Lower \cup Digit \cup {"_"}

Elem(S, lo, hi) == [k |-> "cls", set |-> S, min |-> lo, max |-> hi]
One(S) == Elem(S, 1, 1)
Plus(S) == Elem(S, 1, -1)
Star(S) == Elem(S, 0, -1)
WB == [k |-> "wb", set |-> {}, min |-> 0, max |-> 0]
Lit(s) == [j \in 1..Len(s) |-> One({s[j]})]

(***************************************************************************)
(* The pattern specs of the model: the four defaults of --patterns, the    *)
(* category labels used as patterns, and small patterns over {a, b}.       *)
(***************************************************************************)
EmailPattern == "\\b[A-Za-z0-9._%+-]+@[A-Za-z0-9.-]+\\.[A-Z|a-z]{2,7}\\b"
PhonePattern == "\\d{3}-\\d{3}-\\d{4}"
DatePattern == "\\d{1,2}[-/]\\d{1,2}[-/]\\d{2,4}"
NamePattern == "\\b[A-Z][a-z]+\\s[A-Z][a-z]+\\b"
DefaultPatterns == <<EmailPattern, PhonePattern, DatePattern, NamePattern>>

Ok(prog) == [status |-> "ok", prog |-> prog]
Fails(exc) == [status |-> exc, prog |-> <<>>]

re_compile(pattern_str) ==
  CASE pattern_str = EmailPattern ->
         Ok(<<WB, Plus(Upper \cup Lower \cup Digit \cup {".","_","%","+","-"}),
              One({"@"}), Plus(Upper \cup Lower \cup Digit \cup {".","-"}),
              One({"."}), Elem(Upper \cup Lower \cup {"|"}, 2, 7), WB>>)
    [] pattern_str = PhonePattern ->
         Ok(<<Elem(Digit, 3, 3), One({"-"}), Elem(Digit, 3, 3), One({"-"}),
              Elem(Digit, 4, 4)>>)
    [] pattern_str = DatePattern ->
         Ok(<<Elem(Digit, 1, 2), One({"-","/"}), Elem(Digit, 1, 2),
              One({"-","/"}), Elem(Digit, 2, 4)>>)
    [] pattern_str = NamePattern ->
         Ok(<<WB, One(Upper), Plus(Lower), One(Space), One(Upper), Plus(Lower), WB>>)
    [] pattern_str = "name" -> Ok(Lit(<<"n","a","m","e">>))
    [] pattern_str = "date" -> Ok(Lit(<<"d","a","t","e">>))
    [] pattern_str = "aa" -> Ok(Lit(<<"a","a">>))
    [] pattern_str = "b" -> Ok(Lit(<<"b">>))
    [] pattern_str = "b*" -> Ok(<<Star({"b"})>>)
    [] pattern_str = "ab+" -> Ok(<<One({"a"}), Plus({"b"})>>)
    [] pattern_str = "[" -> Fails("re.error")
    [] pattern_str = "(" -> Fails("re.error")
    [] pattern_str = "a{4294967296}" -> Fails("OverflowError")

(***************************************************************************)
(* Matching: positions are 1..Len(t)+1; the result is the position after   *)
(* the match, or 0 when there is none starting at pos.                     *)
(***************************************************************************)
IsWordAt(t, q) == q >= 1 /\ q <= Len(t) /\ t[q] \in WordChars
AtBoundary(t, pos) == IsWordAt(t, pos - 1) # IsWordAt(t, pos)

RECURSIVE RunLen(_, _, _)
RunLen(t, pos, S) ==
  IF pos <= Len(t) /\ t[pos] \in S THEN 1 + RunLen(t, pos + 1, S) ELSE 0

RECURSIVE MatchFrom(_, _, _, _)
RECURSIVE TryCount(_, _, _, _, _)
MatchFrom(prog, j, t, pos) ==
  IF j > Len(prog) THEN pos
  ELSE IF prog[j].k = "wb"
       THEN IF AtBoundary(t, pos) THEN MatchFrom(prog, j + 1, t, pos) ELSE 0
       ELSE LET run == RunLen(t, pos, prog[j].set)
                top == IF prog[j].max = -1 \/ run < prog[j].max
                       THEN run ELSE prog[j].max
            IN TryCount(prog, j, t, pos, top)
TryCount(prog, j, t, pos, c) ==
  IF c < prog[j].min THEN 0
  ELSE LET r == MatchFrom(prog, j + 1, t, pos + c)
       IN IF r # 0 THEN r ELSE TryCount(prog, j, t, pos, c - 1)

(***************************************************************************)
(* The spans re.sub replaces: leftmost-first, non-overlapping, an empty    *)
(* match allowed right after a non-empty one.  A span is <<start, end>>,   *)
(* end exclusive.                                                          *)
(***************************************************************************)
RECURSIVE Scan(_, _, _)
Scan(prog, t, pos) ==
  IF pos > Len(t) + 1 THEN <<>>
  ELSE LET e == MatchFrom(prog, 1, t, pos)
       IN IF e = 0 THEN Scan(prog, t, pos + 1)
          ELSE IF e = pos THEN <<<<pos, pos>>>> \o Scan(prog, t, pos + 1)
          ELSE <<<<pos, e>>>> \o Scan(prog, t, e)

FindAll(prog, t) == Scan(prog, t, 1)

(***************************************************************************)
(* re.sub's rewriting: the text between the spans is copied, each span     *)
(* gives way to what the replacement callback returned for it.             *)
(***************************************************************************)
\* an off-by-one that loses the last character of the text
RECURSIVE Build_droptail(_, _, _, _, _)
Build_droptail(t, spans, vals, n, pos) ==
  IF n > Len(spans) THEN SubSeq(t, pos, Len(t) - 1)
  ELSE SubSeq(t, pos, spans[n][1] - 1) \o vals[n]
       \o Build_droptail(t, spans, vals, n + 1, spans[n][2])

RECURSIVE Build(_, _, _, _, _)
Build(t, spans, vals, n, pos) ==
  IF n > Len(spans) THEN SubSeq(t, pos, Len(t))
  ELSE SubSeq(t, pos, spans[n][1] - 1) \o vals[n]
       \o Build(t, spans, vals, n + 1, spans[n][2])

re_sub(prog, vals, t) == Build(t, FindAll(prog, t), vals, 1, 1)

(***************************************************************************)
(* The replacement callbacks.  generate_fake_data gives the generator      *)
(* branch taken and the values the branch can return (a sample of Faker's  *)
(* range: each call returns any one of them).                              *)
(***************************************************************************)
\* a callback that returns a fixed mask instead of its argument
replace_match_mask(match, replacement) == <<"*">>
replace_match(match, replacement) == replacement

FakeEmail == {<<"a","@","b",".","i","o">>}
FakePhone == {<<"5","5","5","-","0","1","0","0">>}
FakeDate == {<<"1","9","9","9","-","0","1","-","0","2">>, <<"2","0","0","1","-","1","1","-","3","0">>}
FakeName == {<<"A","l"," ","B","a","y">>, <<"E","d"," ","L","e","e">>}
FakeAddress == {<<"1"," ","E","l","m"," ","S","t">>}
FakeCard == {<<"V","I","S","A","\n","4","1","1","1","\n">>}
FakeWord == {<<"a">>, <<"a","b","l","e">>}

\* a generator that takes the default patterns for their categories
generate_fake_data_inferred(data_type) ==
  IF data_type \in {"email", EmailPattern} THEN [gen |-> "email", values |-> FakeEmail]
  ELSE IF data_type \in {"phone", PhonePattern}
       THEN [gen |-> "phone_number", values |-> FakePhone]
  ELSE IF data_type \in {"date", DatePattern} THEN [gen |-> "date", values |-> FakeDate]
  ELSE IF data_type \in {"name", NamePattern} THEN [gen |-> "name", values |-> FakeName]
  ELSE IF data_type = "address" THEN [gen |-> "address", values |-> FakeAddress]
  ELSE IF data_type = "credit_card"
       THEN [gen |-> "credit_card_full", values |-> FakeCard]
  ELSE [gen |-> "word", values |-> FakeWord]

generate_fake_data(data_type) ==
  IF data_type = "email" THEN [gen |-> "email", values |-> FakeEmail]
  ELSE IF data_type = "phone" THEN [gen |-> "phone_number", values |-> FakePhone]
  ELSE IF data_type = "date" THEN [gen |-> "date", values |-> FakeDate]
  ELSE IF data_type = "name" THEN [gen |-> "name", values |-> FakeName]
  ELSE IF data_type = "address" THEN [gen |-> "address", values |-> FakeAddress]
  ELSE IF data_type = "credit_card"
       THEN [gen |-> "credit_card_full", values |-> FakeCard]
  ELSE [gen |-> "word", values |-> FakeWord]

(***************************************************************************)
(* apply_regex_replacement when re.sub raises nothing: vals[n] is what the *)
(* callback returned for the n-th match.                                   *)
(***************************************************************************)
apply_regex_replacement(t, prog, vals) == re_sub(prog, vals, t)

(***************************************************************************)
(* Inputs.                                                                 *)
(***************************************************************************)
RECURSIVE SeqsUpTo(_, _)
SeqsUpTo(A, n) ==
  IF n = 0 THEN {<<>>}
  ELSE LET P == SeqsUpTo(A, n - 1)
       IN P \cup {Append(s, c) : s \in {q \in P : Len(q) = n - 1}, c \in A}

SmallAlphabet == {"a", "b"}
SmallSpecs == {"aa", "b", "ab+", "[", "a{4294967296}"}

ContactText ==
  <<"C","o","n","t","a","c","t",":"," ","J","o","h","n"," ","S","m","i","t","h",
    ","," ","j","o","h","n","@","x",".","c","o","m">>
RecordText ==
  <<"n","a","m","e"," ","A","l"," ","B","a","y"," ","d","a","t","e"," ",
    "1","/","2","/","9","9"," ","5","5","5","-","0","1","0","-","0","1","0","0",
    " ","a","@","b",".","i","o">>

Texts == SeqsUpTo(SmallAlphabet, MaxLen) \cup {ContactText, RecordText}
PatternLists ==
  SeqsUpTo(SmallSpecs, MaxPats)
  \cup {DefaultPatterns, <<NamePattern, EmailPattern>>, <<EmailPattern, NamePattern>>,
        <<"name", "date">>, <<"(", DatePattern>>}
\* a pattern with empty matches, explored under the strategies whose
\* replacement is one fixed value
EmptyMatching == {<<"b*">>}

NoCustom == [given |-> FALSE, val |-> <<>>]
Customs == {NoCustom, [given |-> TRUE, val |-> <<>>], [given |-> TRUE, val |-> <<"\\", "1">>]}
Falsy(custom) == ~custom.given \/ custom.val = <<>>
ReplacementTypes == {"remove", "fake", "custom", "mask"}

NoCall == [text |-> <<>>, pc |-> "none", ret |-> <<>>, applied |-> <<>>]

(***************************************************************************)
(* The command line and the process environment of main.                   *)
(***************************************************************************)
NoCli == [input |-> "None", output |-> "None", stdin_tty |-> TRUE, stdin |-> <<>>,
          file |-> "missing", data |-> <<>>, writable |-> TRUE]
Clis ==
  [input : {"None", "-", "in.txt"}, output : {"None", "-", "out.txt"},
   stdin_tty : {TRUE}, stdin : {<<>>},
   file : {"missing", "unreadable", "ok"}, data : {<<"a","a","b">>}, writable : BOOLEAN]
  \cup
  [input : {"None", "-", "in.txt"}, output : {"None", "-", "out.txt"},
   stdin_tty : {FALSE}, stdin : {<<"a","b","b">>, ContactText},
   file : {"missing", "unreadable", "ok"}, data : {<<"a","a","b">>}, writable : BOOLEAN]
MainPatternLists == {DefaultPatterns, <<"b">>, <<"[", "aa">>, <<"a{4294967296}">>}
Running == [exit |-> "running", why |-> "", stdout |-> <<>>, outfile |-> <<>>]

VARIABLES
  text,                \* sanitize_text's argument
  patterns,            \* the ordered pattern specs
  replacement_type,
  custom_replacement,
  sanitized_text,      \* the working text of the loop
  idx,                 \* the loop's position in patterns, 1-based
  pc,                  \* "main", "call", "loop", "returned", "raised", "exited"
  ret,                 \* what sanitize_text returned
  applied,             \* per finished iteration: what it matched against and did
  faker_fails,         \* the generator raises in this environment
  first,               \* the finished first call, during a second one
  cli,                 \* main's arguments and environment
  proc                 \* main's exit status and what it wrote

vars == <<text, patterns, replacement_type, custom_replacement, sanitized_text,
          idx, pc, ret, applied, faker_fails, first, cli, proc>>

Fresh ==
  /\ sanitized_text = <<>>
  /\ idx = 0
  /\ ret = <<>>
  /\ applied = <<>>
  /\ first = NoCall
  /\ proc = Running

\* a call of sanitize_text
Init ==
  /\ text \in Texts
  /\ replacement_type \in ReplacementTypes
  /\ patterns \in
       (IF replacement_type = "fake" THEN PatternLists
        ELSE PatternLists \cup EmptyMatching)
  /\ custom_replacement \in
       (IF replacement_type = "custom" \/ patterns = <<>> THEN Customs ELSE {NoCustom})
  /\ faker_fails \in (IF replacement_type = "fake" THEN BOOLEAN ELSE {FALSE})
  /\ pc = "call"
  /\ cli = NoCli
  /\ Fresh

\* a call under remove, followed by a call on its result
InitIdem == Init /\ replacement_type = "remove"

\* a call under fake, followed by a call with the same arguments
InitTwice ==
  /\ text \in SeqsUpTo(SmallAlphabet, TwiceLen) \cup {ContactText, RecordText}
  /\ replacement_type = "fake"
  /\ patterns \in PatternLists
  /\ custom_replacement = NoCustom
  /\ faker_fails \in BOOLEAN
  /\ pc = "call"
  /\ cli = NoCli
  /\ Fresh

\* the program started from the command line (argparse: --replacement is one
\* of the three choices, --patterns holds at least one spec)
InitMain ==
  /\ cli \in Clis
  /\ text = <<>>
  /\ replacement_type \in {"remove", "fake", "custom"}
  /\ patterns \in MainPatternLists
  /\ custom_replacement \in
       (IF replacement_type = "custom" THEN {NoCustom, [given |-> TRUE, val |-> <<"#">>]}
        ELSE {NoCustom})
  /\ faker_fails \in (IF replacement_type = "fake" THEN BOOLEAN ELSE {FALSE})
  /\ pc = "main"
  /\ Fresh

inputs == <<text, patterns, replacement_type, custom_replacement, faker_fails, first,
            cli, proc>>

(***************************************************************************)
(* sanitize_text, lines 84-88.                                             *)
(***************************************************************************)
\* a working text kept across calls instead of being set from the argument
StartText_stale(t, stale) == IF stale # <<>> THEN stale ELSE t
StartText(t, stale) == t
\* an empty result instead of the argument
NoPatternsResult_empty(t) == <<>>
NoPatternsResult(t) == t

NoPatterns ==
  /\ pc = "call"
  /\ patterns = <<>>
  /\ sanitized_text' = StartText(text, sanitized_text)
  /\ ret' = NoPatternsResult(text)
  /\ pc' = "returned"
  /\ UNCHANGED <<idx, applied, inputs>>

BeginLoop ==
  /\ pc = "call"
  /\ patterns # <<>>
  /\ sanitized_text' = StartText(text, sanitized_text)
  /\ idx' = 1
  /\ pc' = "loop"
  /\ UNCHANGED <<ret, applied, inputs>>

(***************************************************************************)
(* One iteration of the loop, lines 90-107.                                *)
(***************************************************************************)
InLoop == pc = "loop" /\ idx >= 1 /\ idx <= Len(patterns)
pattern_str == patterns[idx]
Compiled == re_compile(pattern_str)
\* every pattern matched against the argument instead of the working text
MatchInput_original(original, working) == original
MatchInput(original, working) == working
Caught(status) == status = "re.error"

Done(outcome, gen, against, spans, vals, after) ==
  /\ applied' = Append(applied,
       [spec |-> pattern_str, outcome |-> outcome, gen |-> gen,
        before |-> against, spans |-> spans, vals |-> vals, after |-> after])
  /\ sanitized_text' = after
  /\ idx' = idx + 1
  /\ UNCHANGED <<pc, ret, inputs>>

CompileError ==
  /\ InLoop
  /\ Compiled.status # "ok"
  /\ Caught(Compiled.status)
  /\ Done("compile_error", "none", sanitized_text, <<>>, <<>>, sanitized_text)

\* re.compile raised something that is no re.error: nothing catches it
CompileRaises ==
  /\ InLoop
  /\ Compiled.status # "ok"
  /\ ~Caught(Compiled.status)
  /\ pc' = "raised"
  /\ UNCHANGED <<sanitized_text, idx, ret, applied, inputs>>

ApplyRemove ==
  /\ InLoop
  /\ Compiled.status = "ok"
  /\ replacement_type = "remove"
  /\ LET t == MatchInput(text, sanitized_text)
         spans == FindAll(Compiled.prog, t)
         vals == [n \in 1..Len(spans) |-> replace_match(spans[n], <<>>)]
     IN Done("replaced", "none", t, spans, vals,
             apply_regex_replacement(t, Compiled.prog, vals))

ApplyFake ==
  /\ InLoop
  /\ Compiled.status = "ok"
  /\ replacement_type = "fake"
  /\ LET t == MatchInput(text, sanitized_text)
         spans == FindAll(Compiled.prog, t)
         fake == generate_fake_data(pattern_str)
     IN /\ ~(faker_fails /\ spans # <<>>)
        /\ \E vals \in [1..Len(spans) -> fake.values] :
             Done("replaced", fake.gen, t, spans, vals,
                  apply_regex_replacement(t, Compiled.prog, vals))

\* lines 76-78: the callback raised inside re.sub, the text comes back as it went in
ApplyFault ==
  /\ InLoop
  /\ Compiled.status = "ok"
  /\ replacement_type = "fake"
  /\ LET t == MatchInput(text, sanitized_text)
         spans == FindAll(Compiled.prog, t)
     IN /\ faker_fails /\ spans # <<>>
        /\ Done("fault", "none", t, <<>>, <<>>, t)

ApplyCustom ==
  /\ InLoop
  /\ Compiled.status = "ok"
  /\ replacement_type = "custom"
  /\ ~Falsy(custom_replacement)
  /\ LET t == MatchInput(text, sanitized_text)
         spans == FindAll(Compiled.prog, t)
         vals == [n \in 1..Len(spans) |-> replace_match(spans[n], custom_replacement.val)]
     IN Done("replaced", "none", t, spans, vals,
             apply_regex_replacement(t, Compiled.prog, vals))

SkipCustom ==
  /\ InLoop
  /\ Compiled.status = "ok"
  /\ replacement_type = "custom"
  /\ Falsy(custom_replacement)
  /\ Done("no_custom", "none", sanitized_text, <<>>, <<>>, sanitized_text)

InvalidType ==
  /\ InLoop
  /\ Compiled.status = "ok"
  /\ replacement_type \notin {"remove", "fake", "custom"}
  /\ Done("invalid_type", "none", sanitized_text, <<>>, <<>>, sanitized_text)

Return ==
  /\ pc = "loop"
  /\ idx > Len(patterns)
  /\ ret' = sanitized_text
  /\ pc' = "returned"
  /\ UNCHANGED <<sanitized_text, idx, applied, inputs>>

(***************************************************************************)
(* A caller's second call, with the same arguments or with the first       *)
(* call's result as the text.                                              *)
(***************************************************************************)
CallAgain(t) ==
  /\ first.pc = "none"
  /\ first' = [text |-> text, pc |-> pc, ret |-> ret, applied |-> applied]
  /\ text' = t
  /\ idx' = 0
  /\ pc' = "call"
  /\ ret' = <<>>
  /\ applied' = <<>>
  /\ UNCHANGED <<sanitized_text, patterns, replacement_type, custom_replacement,
                 faker_fails, cli, proc>>

CallSame == pc \in {"returned", "raised"} /\ CallAgain(text)
CallOnResult == pc = "returned" /\ CallAgain(ret)

(***************************************************************************)
(* main, lines 128-150.                                                    *)
(***************************************************************************)
Exit(status, why) ==
  /\ pc' = "exited"
  /\ proc' = [proc EXCEPT !.exit = status, !.why = why]
  /\ UNCHANGED <<text, patterns, replacement_type, custom_replacement, sanitized_text,
                 idx, ret, applied, faker_fails, first, cli>>

Read(data) ==
  /\ text' = data
  /\ pc' = "call"
  /\ UNCHANGED <<patterns, replacement_type, custom_replacement, sanitized_text,
                 idx, ret, applied, faker_fails, first, cli, proc>>

MainStdinTty == pc = "main" /\ cli.input = "-" /\ cli.stdin_tty /\ Exit("1", "no_stdin")
MainReadStdin == pc = "main" /\ cli.input = "-" /\ ~cli.stdin_tty /\ Read(cli.stdin)
MainFileMissing ==
  pc = "main" /\ cli.input = "in.txt" /\ cli.file = "missing" /\ Exit("1", "no_file")
MainReadFails ==
  pc = "main" /\ cli.input = "in.txt" /\ cli.file = "unreadable" /\ Exit("1", "read_error")
MainReadFile == pc = "main" /\ cli.input = "in.txt" /\ cli.file = "ok" /\ Read(cli.data)
MainNoInput == pc = "main" /\ cli.input = "None" /\ Exit("1", "no_input")

MainPrint ==
  /\ pc = "returned"
  /\ cli.output \in {"None", "-"}
  /\ pc' = "exited"
  /\ proc' = [proc EXCEPT !.exit = "0", !.stdout = ret \o <<"\n">>]
  /\ UNCHANGED <<text, patterns, replacement_type, custom_replacement, sanitized_text,
                 idx, ret, applied, faker_fails, first, cli>>

MainWrite ==
  /\ pc = "returned"
  /\ cli.output = "out.txt"
  /\ cli.writable
  /\ pc' = "exited"
  /\ proc' = [proc EXCEPT !.exit = "0", !.outfile = ret]
  /\ UNCHANGED <<text, patterns, replacement_type, custom_replacement, sanitized_text,
                 idx, ret, applied, faker_fails, first, cli>>

MainWriteFails ==
  pc = "returned" /\ cli.output = "out.txt" /\ ~cli.writable /\ Exit("1", "write_error")

\* an exception out of sanitize_text ends the interpreter with a traceback
MainUncaught == pc = "raised" /\ Exit("1", "uncaught")

(***************************************************************************)
(* Specifications.                                                         *)
(***************************************************************************)
Next ==
  \/ NoPatterns \/ BeginLoop
  \/ CompileError \/ CompileRaises
  \/ ApplyRemove \/ ApplyFake \/ ApplyFault \/ ApplyCustom \/ SkipCustom \/ InvalidType
  \/ Return

Spec == Init /\ [][Next]_vars

NextIdem ==
  \/ NoPatterns \/ BeginLoop
  \/ CompileError \/ CompileRaises
  \/ ApplyRemove
  \/ Return
  \/ CallOnResult

SpecIdem == InitIdem /\ [][NextIdem]_vars

NextTwice ==
  \/ NoPatterns \/ BeginLoop
  \/ CompileError \/ CompileRaises
  \/ ApplyFake \/ ApplyFault
  \/ Return
  \/ CallSame

SpecTwice == InitTwice /\ [][NextTwice]_vars

NextMain ==
  \/ MainStdinTty \/ MainReadStdin \/ MainFileMissing \/ MainReadFails
  \/ MainReadFile \/ MainNoInput
  \/ BeginLoop
  \/ CompileError \/ CompileRaises
  \/ ApplyRemove \/ ApplyFake \/ ApplyFault \/ ApplyCustom \/ SkipCustom
  \/ Return
  \/ MainPrint \/ MainWrite \/ MainWriteFails \/ MainUncaught

SpecMain == InitMain /\ [][NextMain]_vars

(***************************************************************************)
(* Properties.                                                             *)
(***************************************************************************)
Min(a, b) == IF a < b THEN a ELSE b

\* what one pattern alone makes of w, with the values the iteration drew
Single(w, rec) ==
  IF rec.outcome # "replaced" THEN w
  ELSE LET prog == re_compile(rec.spec).prog
           sp == FindAll(prog, w)
       IN IF Len(sp) = Len(rec.vals) THEN Build(w, sp, rec.vals, 1, 1)
          ELSE <<"?">> \o w

\* the left-to-right fold of Single over recs
RECURSIVE Replay(_, _, _)
Replay(w, recs, n) ==
  IF n > Len(recs) THEN w ELSE Replay(Single(w, recs[n]), recs, n + 1)

ContactRemoved == <<"C","o","n","t","a","c","t",":"," ",","," ">>

\* C1: pattern i is matched against the result of patterns before it, never
\* against the original text: the working text is at every point the
\* left-to-right fold of single-pattern replacement over the patterns done, the
\* returned text is the fold over the whole list, and "Contact: John Smith,
\* john@x.com" under [name, email] and remove comes back as "Contact: , ".
C1_SequentialComposition ==
  /\ \A i \in 1..Len(applied) :
       /\ applied[i].before = (IF i = 1 THEN text ELSE applied[i - 1].after)
       /\ applied[i].after = Single(applied[i].before, applied[i])
  /\ pc = "loop" => /\ sanitized_text = Replay(text, applied, 1)
                    /\ Len(applied) = idx - 1
                    /\ \A i \in 1..Len(applied) : applied[i].spec = patterns[i]
  /\ pc = "returned" /\ patterns # <<>> =>
       /\ ret = Replay(text, applied, 1)
       /\ Len(applied) = Len(patterns)
  /\ (/\ pc = "returned"
      /\ text = ContactText
      /\ patterns = <<NamePattern, EmailPattern>>
      /\ replacement_type = "remove") => ret = ContactRemoved
C1_Witness ==
  /\ pc = "returned"
  /\ text = ContactText
  /\ patterns = <<NamePattern, EmailPattern>>
  /\ replacement_type = "remove"
  /\ applied[1].spans # <<>>
  /\ applied[2].spans # <<>>
  /\ applied[2].before # text
  /\ ret = ContactRemoved

Compiles(rec) == re_compile(rec.spec).status = "ok"
NotMalformed(rec) == re_compile(rec.spec).status # "re.error"

\* C2: a pattern spec that fails to compile is never applied and never aborts
\* the run: no exception leaves the call, and what is returned is what the list
\* without the failing specs gives.
C2_FailedCompileSkipped ==
  /\ pc # "raised"
  /\ pc = "returned" => ret = Replay(text, SelectSeq(applied, Compiles), 1)

\* The part of C2 that concerns specs re.compile rejects with re.error: a call
\* that returns gives what the list without those specs gives.
MalformedSpecsSkipped ==
  pc = "returned" => ret = Replay(text, SelectSeq(applied, NotMalformed), 1)

\* C3: no failure of processing a spec (compiling, matching, replacing)
\* escapes the call; the working text after a failing spec is the working text
\* before it, and the loop goes on to the next spec.
C3_FailureIsolation ==
  /\ pc # "raised"
  /\ \A i \in 1..Len(applied) :
       applied[i].outcome \in {"compile_error", "fault"} =>
         applied[i].after = (IF i = 1 THEN text ELSE applied[i - 1].after)

\* C4: under custom with the custom replacement absent or empty, for any text
\* and any pattern list the input text is returned unchanged and no error is
\* raised.
C4_MissingCustomNoOp ==
  (replacement_type = "custom" /\ Falsy(custom_replacement)) =>
    /\ pc # "raised"
    /\ pc = "loop" => sanitized_text = text
    /\ pc = "returned" => ret = text

\* The part of C4 that concerns pattern lists re.compile raises nothing but
\* re.error for: every spec is skipped and the text comes back unchanged.
MissingCustomSkips ==
  (/\ replacement_type = "custom"
   /\ Falsy(custom_replacement)
   /\ \A i \in 1..Len(patterns) : re_compile(patterns[i]).status \in {"ok", "re.error"}) =>
    /\ pc # "raised"
    /\ pc = "loop" => sanitized_text = text
    /\ pc = "returned" => ret = text

Covered(sp, q) == \E n \in 1..Len(sp) : sp[n][1] <= q /\ q < sp[n][2]
StartsAt(sp, q) == \E n \in 1..Len(sp) : sp[n][1] = q

\* sp are the leftmost-first non-overlapping matches of prog in t
LeftmostMatches(prog, t, sp) ==
  /\ \A n \in 1..Len(sp) :
       /\ sp[n][1] >= 1 /\ sp[n][2] <= Len(t) + 1
       /\ MatchFrom(prog, 1, t, sp[n][1]) = sp[n][2]
       /\ n < Len(sp) => /\ sp[n][2] <= sp[n + 1][1]
                         /\ sp[n][1] < sp[n + 1][1]
  /\ \A q \in 1..(Len(t) + 1) :
       \/ StartsAt(sp, q)
       \/ Covered(sp, q)
       \/ MatchFrom(prog, 1, t, q) = 0

\* t, position by position: r where a span starts, the character where no
\* span covers it
RECURSIVE Expect(_, _, _, _)
Expect(t, sp, r, q) ==
  IF q > Len(t) + 1 THEN <<>>
  ELSE (IF StartsAt(sp, q) THEN r ELSE <<>>)
       \o (IF q <= Len(t) /\ ~Covered(sp, q) THEN <<t[q]>> ELSE <<>>)
       \o Expect(t, sp, r, q + 1)

SingleValid ==
  /\ Len(patterns) = 1
  /\ re_compile(patterns[1]).status = "ok"
  /\ \/ replacement_type = "remove"
     \/ replacement_type = "custom" /\ ~Falsy(custom_replacement)
Replacement == IF replacement_type = "remove" THEN <<>> ELSE custom_replacement.val

\* C5: for one valid pattern under remove, or under custom with a non-empty R,
\* the returned text is the input with each leftmost-first non-overlapping
\* match replaced by exactly "" or R, every other character kept in place.
C5_ExactReplacement ==
  (pc = "returned" /\ SingleValid) =>
    /\ LeftmostMatches(re_compile(patterns[1]).prog, text, applied[1].spans)
    /\ ret = Expect(text, applied[1].spans, Replacement, 1)
C5_Witness ==
  /\ pc = "returned"
  /\ SingleValid
  /\ patterns = <<"ab+">>
  /\ replacement_type = "custom"
  /\ text = <<"b", "a", "b">>
  /\ ret = <<"b", "\\", "1">>

\* C6: with an empty pattern list the call returns its text unchanged, for
\* every replacement type and custom replacement, and raises nothing.
C6_EmptyListNoOp ==
  patterns = <<>> => \/ pc = "call"
                     \/ pc = "returned" /\ ret = text
C6_Witness ==
  /\ patterns = <<>>
  /\ pc = "returned"
  /\ text = <<"a", "b">>
  /\ replacement_type = "mask"
  /\ custom_replacement.given
  /\ custom_replacement.val # <<>>

\* no pattern of the list has a non-empty match in t
NoRetrigger(t) ==
  \A i \in 1..Len(patterns) :
    LET c == re_compile(patterns[i])
    IN c.status = "ok" =>
         \A q \in 1..Len(t) : MatchFrom(c.prog, 1, t, q) \in {0, q}

SecondReturned == first.pc = "returned" /\ pc = "returned"

\* C7: under remove, when the result of a call holds no match of any pattern
\* of the list that deletion could remove, a second call on that result
\* returns it unchanged.
C7_IdempotentRemove ==
  (SecondReturned /\ NoRetrigger(first.ret)) => ret = first.ret
C7_Witness ==
  /\ SecondReturned
  /\ NoRetrigger(first.ret)
  /\ Len(patterns) = 2
  /\ first.ret # first.text
  /\ first.ret # <<>>
  /\ ret = first.ret

\* Without the condition on the result the second call can delete again.
IdempotentRemoveAlways == SecondReturned => ret = first.ret

Common == Min(Len(applied), Len(first.applied))

\* C8: two calls with the same text and pattern list under fake replace the
\* same spans, for every pattern of the list.
C8_SameSpansEveryPattern ==
  first.pc # "none" =>
    \A i \in 1..Common : applied[i].spans = first.applied[i].spans

\* C8, amended: the two calls replace the same spans up to and including the
\* first pattern of the list that replaces anything.
C8_SameSpansFirstReplacing ==
  first.pc # "none" =>
    \A i \in 1..Common :
      (\A j \in 1..(i - 1) : first.applied[j].spans = <<>>) =>
        applied[i].spans = first.applied[i].spans
C8_Witness ==
  /\ SecondReturned
  /\ Len(patterns) = 2
  /\ applied[1].spans # <<>>
  /\ applied[1].vals # first.applied[1].vals
  /\ applied[1].spans = first.applied[1].spans
  /\ applied[2].spans # first.applied[2].spans

\* C9: main exits with status 1 for lack of input only when --input is
\* absent and nothing is piped, or --input is "-" and stdin is a terminal.
C9_NoInputExit ==
  (pc = "exited" /\ proc.why \in {"no_input", "no_stdin"}) =>
    cli.stdin_tty /\ cli.input \in {"None", "-"}

Labels == {"email", "phone", "date", "name", "address", "credit_card"}
LabelGen(spec) ==
  CASE spec = "email" -> [gen |-> "email", values |-> FakeEmail]
    [] spec = "phone" -> [gen |-> "phone_number", values |-> FakePhone]
    [] spec = "date" -> [gen |-> "date", values |-> FakeDate]
    [] spec = "name" -> [gen |-> "name", values |-> FakeName]
    [] spec = "address" -> [gen |-> "address", values |-> FakeAddress]
    [] spec = "credit_card" -> [gen |-> "credit_card_full", values |-> FakeCard]

\* C10: under fake every match is replaced by a value of the generator branch
\* chosen by the spec's own text: the branch of the label when the text is
\* exactly a label, the generic word for every other spec, the four default
\* patterns included.
C10_CategoryIsSpecText ==
  replacement_type = "fake" =>
    \A i \in 1..Len(applied) :
      applied[i].outcome = "replaced" =>
        LET want == IF applied[i].spec \in Labels THEN LabelGen(applied[i].spec)
                    ELSE [gen |-> "word", values |-> FakeWord]
        IN /\ applied[i].gen = want.gen
           /\ Len(applied[i].vals) = Len(applied[i].spans)
           /\ \A n \in 1..Len(applied[i].vals) : applied[i].vals[n] \in want.values
C10_Witness ==
  /\ replacement_type = "fake"
  /\ pc = "returned"
  /\ patterns = DefaultPatterns
  /\ \A i \in 1..4 : applied[i].spans # <<>> /\ applied[i].gen = "word"
====
